---- MODULE Spec2Model ----
(***************************************************************************)
(* SalesDataGenerator.generate_demo_data (sales/ml_data_generator.py) as a *)
(* state machine over the database it writes.                              *)
(*                                                                         *)
(* The database is seen twice: `committed` is what is durable, `tx` is the *)
(* working state of the transaction opened by the @transaction.atomic      *)
(* decorator of generate_demo_data.  Every persistence step of the method  *)
(* may succeed or fault; a fault is an input of the model.                 *)
(*                                                                         *)
(* Amounts are whole currency units (the prices of products_data have no   *)
(* cents): Decimal arithmetic on them is exact.                            *)
(* Days are offsets from self.start_date.                                  *)
(*                                                                         *)
(* Spec follows generate_demo_data under faults of its persistence steps,  *)
(* SpecClean a run without faults, SpecMetrics the bootstrap and the       *)
(* maintenance pass under faults of _ensure_product_metrics and of the     *)
(* save of the placeholder image, and SpecFunctions the helpers of the     *)
(* generator applied on their own.                                         *)
(***************************************************************************)
EXTENDS Integers, Sequences, FiniteSets, TLC

\* ---- bounds of the model ------------------------------------------------
\* self.end_date - self.start_date in days (730 in the code)
WindowDays == 1
\* largest value drawn for the daily number of orders
MaxDaily == 2
\* largest basket drawn (the code draws 1..4 lines)
MaxBasket == 2
\* size of the catalog handed to the loop
NumProducts == 1
\* largest quantity drawn for a line (the code draws 1..3)
MaxQuantity == 2
\* stock of every product the table holds before the first call
InitialStock == 2
\* faults injected in one behaviour
MaxFaults == 2
\* calls of generate_demo_data in one behaviour
MaxCalls == 2

Products == 1 .. NumProducts

Max(a, b) == IF a >= b THEN a ELSE b

\* product.price of the rows of products_data, in currency units
Price(p) ==
    << 1500, 900, 1100, 750, 180, 320, 800, 300, 650, 220, 1200, 420, 120,
       90, 450 >>[((p - 1) % 15) + 1]

Line(p, q) == [product |-> p, quantity |-> q, price |-> Price(p)]

\* what _generate_order_items(products) can return: 1..MaxBasket lines drawn
\* with replacement, each with a quantity and the product's current price
GenerateOrderItems ==
    UNION { [1 .. n -> { Line(p, q) : p \in Products, q \in 1 .. MaxQuantity }]
            : n \in 1 .. MaxBasket }

RECURSIVE SumLines(_)
\* sum(Decimal(str(item['quantity'])) * item['price'] for item in items_data)
SumLines(items) ==
    IF items = << >> THEN 0
    ELSE Head(items).quantity * Head(items).price + SumLines(Tail(items))

DailyCountsFromZero == 0 .. MaxDaily

\* what _generate_daily_sales_count(date) can return: max(1, ...) >= 1
DailySalesCounts == 1 .. MaxDaily

\* ---- transaction scopes -------------------------------------------------
NoOuterAtomic(durable, work, raised, broken) == work

\* exit of the @transaction.atomic block that wraps generate_demo_data:
\* commit the working state unless the call raised or the transaction was
\* marked broken (needs_rollback), in which case everything is rolled back
OuterAtomicExit(durable, work, raised, broken) ==
    IF raised \/ broken THEN durable ELSE work

NoSavepoint(before, after, raised) == after

\* exit of a nested `with transaction.atomic():` block that holds a
\* savepoint: a raise rolls the working state back to the savepoint
InnerAtomicExit(before, after, raised) ==
    IF raised THEN before ELSE after

\* if clear_existing: Order.objects.all().delete()
FirstStep(clear) == IF clear THEN "clear" ELSE "prepare"

BreakOnItemFailure(items) == << >>

\* `continue` in the except branch of a line: on to the next line of the basket
AfterItemFailure(items) == Tail(items)

StockNoGuard(stock, quantity) == stock - quantity

\* if p.stock >= quantity: p.stock = max(0, p.stock - quantity)
StockAfterSale(stock, quantity) ==
    IF stock >= quantity THEN Max(0, stock - quantity) ELSE stock

\* ---- product metrics -----------------------------------------------------
\* a rating or energy_kwh_per_year that is None
None == -1

Min(a, b) == IF a <= b THEN a ELSE b

\* lower-cased names of categories_data, and the category of each row of
\* products_data
CategoryNames ==
    << "heladeras", "lavarropas", "microondas", "televisores", "cocinas",
       "aire acondicionado", "pequenos electrodomesticos" >>

ProductCategory(p) ==
    CategoryNames[<< 1, 1, 2, 2, 3, 3, 4, 4, 5, 5, 6, 6, 7, 7, 7 >>[((p - 1) % 15) + 1]]

\* random.uniform(-0.3, 0.3) in hundredths: the two ends of the interval
RatingNoises == {-30, 30}

\* the whole prices at which base + noise is written as a binary float just
\* below a half hundredth although price / 2000 + noise lies on it:
\* round(.., 2) then gives the hundredth below.  At every other whole price
\* the float rounds as the exact sum does, a sum on a half hundredth
\* going up.
FloatBelowTie(noise) ==
    IF noise = 30
    THEN {10, 30, 50, 70, 90, 110, 130, 170, 210, 250, 270, 290, 310, 330,
          350, 370, 390, 410, 430, 490, 510, 570, 590, 650, 670, 690, 750,
          770, 830, 850, 910, 930, 990, 1010, 1030, 1070, 1090, 1110, 1130,
          1170, 1190, 1250, 1270, 1290, 1330, 1350, 1410, 1430, 1450, 1490,
          1510, 1530, 1570, 1590, 1610, 1630, 1650, 1670, 1690, 1750, 1770,
          1790, 1830, 1850, 1910, 1930, 1950, 1990, 2010, 2030, 2070, 2090,
          2110, 2130, 2170, 2190, 2250, 2270, 2290, 2330, 2350}
    ELSE {270, 310, 690, 770, 850, 1030, 1110, 1130, 1190, 1270, 1290, 1450,
          1530, 1610, 1630, 1690, 1770, 1790, 1850, 1950, 2030, 2110, 2130,
          2190, 2270, 2290, 2450, 2530, 2610, 2630, 2690, 2770, 2790, 2850,
          2950}

\* rating_val in hundredths: max(0.0, min(5.0, round(base + noise, 2))) with
\* base = 3.5 + min(1.5, price / 2000.0) when the object has no _popularity
\* and 3.5 + (pop - 0.5) * 2.0 otherwise (pop in hundredths, price a whole
\* number of currency units, noise one of RatingNoises).  The sums are kept
\* in two-thousandths; round is the rounding of the float the code holds.
RatingValue(price, pop, noise) ==
    LET base == IF pop = None THEN 7000 + Min(3000, price)
                ELSE 7000 + (pop - 50) * 2 * 20
        sum == base + noise * 20
        rounded == IF pop = None /\ sum % 20 = 10
                      /\ price \in FloatBelowTie(noise)
                   THEN sum \div 20
                   ELSE (sum + 10) \div 20 IN
    Max(0, Min(500, rounded))

\* the values `energy` can take for a category: the ends of the randint
\* range of its branch (0 is the other choice of the `cocina` branch)
EnergyDraws(cat) ==
    IF cat = "heladeras" THEN {250, 550}
    ELSE IF cat = "lavarropas" THEN {50, 200}
    ELSE IF cat = "microondas" THEN {50, 120}
    ELSE IF cat = "televisores" THEN {30, 200}
    ELSE IF cat = "aire acondicionado" THEN {500, 2000}
    ELSE IF cat = "cocinas" THEN {0, 200, 800}
    ELSE {20, 500}

DeriveAlways(current, derived, fault) ==
    IF current = None /\ fault THEN current ELSE derived

\* `if getattr(product, field, None) is None:` inside try/except: a field is
\* derived only when it is None, and stays None when the derivation raises
EnsureField(current, derived, fault) ==
    IF current = None /\ ~fault THEN derived ELSE current

\* outcomes of product.save(): it saves, it raises before its query reaches
\* the database, or its query fails in the database
SaveOutcomes == {"saved", "raised", "db_error"}

\* what one call of _ensure_product_metrics draws and meets
EnsureOutcomes(p) ==
    [rating_fault : BOOLEAN, energy_fault : BOOLEAN, noise : RatingNoises,
     energy : EnergyDraws(ProductCategory(p)), save : SaveOutcomes]

\* the flag `updated` of _ensure_product_metrics
Updated(obj, o) ==
    \/ obj.rating = None /\ ~o.rating_fault
    \/ obj.energy = None /\ ~o.energy_fault

\* _ensure_product_metrics(product) on the object `obj` of product p: the
\* object before and after, and what became of product.save() ("none" when
\* it was not called).  Bootstrap calls it before _popularity is attached
\* and the maintenance pass on freshly loaded objects: pop is None.
EnsureProductMetrics(obj, p, o) ==
    [called |-> TRUE,
     before |-> obj,
     after |-> [obj EXCEPT
                  !.rating = EnsureField(obj.rating,
                                         RatingValue(Price(p), None, o.noise),
                                         o.rating_fault),
                  !.energy = EnsureField(obj.energy, o.energy, o.energy_fault)],
     save |-> IF Updated(obj, o) THEN o.save ELSE "none"]

\* an outcome names a fault only where the call can meet it
Effective(obj, o) ==
    /\ o.rating_fault => obj.rating = None
    /\ o.energy_fault => obj.energy = None
    /\ (o.save # "saved") => Updated(obj, o)

\* the faults of one call of _ensure_product_metrics
EnsureFaults(o) ==
    (IF o.rating_fault THEN {"rating"} ELSE {})
    \cup (IF o.energy_fault THEN {"energy"} ELSE {})
    \cup (IF o.save # "saved" THEN {"metrics_" \o o.save} ELSE {})

\* ---- bootstrap ------------------------------------------------------------
\* 'stock': random.randint(20, 200) of a row get_or_create inserts: the two
\* ends of the range
StockDraws == {20, 200}

\* metrics and image of a row get_or_create has just inserted: rating and
\* energy_kwh_per_year are None (migration 0005) and no image is set
NewProduct == [rating |-> None, energy |-> None, image |-> FALSE]

\* what the bootstrap draws and meets for one row of products_data besides
\* its call of _ensure_product_metrics: the stock of a row it inserts and
\* the product.save() that follows `product.image = placeholder_rel`
RowOutcomes == [stock : StockDraws, image : SaveOutcomes]

\* the fault of the save of the placeholder image
ImageFaults(r) == IF r.image # "saved" THEN {"image_" \o r.image} ELSE {}

\* len(products): the first 30 rows when the table holds 30 or more, the 15
\* rows of products_data otherwise
ProductsReturned(n) == IF n >= 30 THEN 30 ELSE 15

\* rows of the Product table after _create_demo_products_if_needed, the rows
\* of products_data being the first ones the table holds
ProductsAfter(n) == IF n >= 30 THEN n ELSE Max(n, 15)

\* len(customers): up to 30 existing clients when there are 15 or more, the
\* 16 users of base_names otherwise
CustomersReturned(n) == IF Min(n, 30) >= 15 THEN Min(n, 30) ELSE 16

\* client rows after _create_demo_customers_if_needed, the users of
\* base_names being the first clients the table holds
ClientsAfter(n) == IF Min(n, 30) >= 15 THEN n ELSE Max(n, 16)

VARIABLES
    committed,       \* durable database: [orders, stock, next_pk, metrics,
                     \*   n_products, n_clients]; metrics holds the rating,
                     \*   the energy estimate and whether an image is set
    tx,              \* working state of the open outer transaction
    needs_rollback,  \* the connection's needs_rollback flag
    pc,              \* position in generate_demo_data
    calls_left,      \* calls the caller will still make
    clear_existing,  \* the argument of the running call
    end_date,        \* self.end_date as a day offset from self.start_date
    p_stock,         \* p.stock of the in-memory Product objects
    p_metrics,       \* rating, energy_kwh_per_year and image of those objects
    current_date,    \* loop variable of the while loop (day offset)
    daily_left,      \* iterations left in `for _ in range(daily_sales)`
    items_data,      \* lines of the current basket not yet processed
    order_total,     \* order_total of the current order
    total_orders,    \* counter returned in the summary
    total_revenue,   \* counter returned in the summary
    nfaults,         \* number of faults injected so far
    faults,          \* history: kinds of the faults injected in this call
    h_fault_day,     \* history: day of the latest fault inside the loop, or -1
    h_before,        \* history: committed when the call started
    h_created,       \* history: rows of the orders whose header creation succeeded
    h_planned,       \* history: <<orders drawn, lines drawn>> in this call
    h_attempted,     \* history: <<header creations, line creations>> attempted
    h_runs,          \* history: one record per finished call
    h_days,          \* history: the days the while loop entered, in order
    h_ensure,        \* history: the latest _ensure_product_metrics call per product
    fn_in,           \* the function applied on its own, with its arguments
    fn_out           \* the outcome of that application

genvars == << committed, tx, needs_rollback, pc, calls_left, clear_existing,
           end_date, p_stock, current_date, daily_left, items_data,
           order_total, total_orders, total_revenue, nfaults, faults,
           h_fault_day, h_before, h_created, h_planned, h_attempted, h_runs,
           p_metrics, h_days, h_ensure >>

\* a helper of the generator applied on its own
fnvars == << fn_in, fn_out >>

vars == << genvars, fnvars >>

\* the arguments and the window of the running call
callvars == << calls_left, clear_existing, end_date >>

\* the locals of the loop
loopvars == << current_date, daily_left, items_data, order_total,
               total_orders, total_revenue >>

\* the history of the running call, except faults
histvars == << h_before, h_created, h_planned, h_attempted, h_days >>

\* the metrics of the in-memory objects and the calls that set them
metricvars == << p_metrics, h_ensure >>

\* what h_ensure holds for a product _ensure_product_metrics was not called on
NoCall(obj) ==
    [called |-> FALSE, before |-> obj, after |-> obj, save |-> "none"]

\* every way the calls on the products of the catalog can go
AllEnsureOutcomes ==
    { f \in [Products -> UNION { EnsureOutcomes(p) : p \in Products }] :
        \A p \in Products : f[p] \in EnsureOutcomes(p) }

RECURSIVE FaultCount(_, _)
\* the number of faults in the outcomes of products 1 .. n
FaultCount(outcomes, n) ==
    IF n = 0 THEN 0
    ELSE Cardinality(EnsureFaults(outcomes[n])) + FaultCount(outcomes, n - 1)

\* every way the rows of products_data can go in the bootstrap
AllRowOutcomes == [Products -> RowOutcomes]

RECURSIVE ImageFaultCount(_, _)
\* the number of failed saves of the placeholder image for products 1 .. n
ImageFaultCount(rows, n) ==
    IF n = 0 THEN 0
    ELSE Cardinality(ImageFaults(rows[n])) + ImageFaultCount(rows, n - 1)

\* the metrics of a product whose rating and energy estimate were derived
SetMetrics(p) ==
    [rating |-> RatingValue(Price(p), None, 30),
     energy |-> CHOOSE e \in EnergyDraws(ProductCategory(p)) :
                   \A f \in EnergyDraws(ProductCategory(p)) : e <= f,
     image |-> TRUE]

\* a database bootstrapped by an earlier run, without orders
EmptyDb == [orders |-> << >>,
            stock |-> [p \in Products |-> InitialStock],
            next_pk |-> 1,
            metrics |-> [p \in Products |-> SetMetrics(p)],
            n_products |-> 15,
            n_clients |-> 16]

\* a database that already holds one order of an earlier run
SeededDb == [orders |-> << [pk |-> 1, created_at |-> 0,
                            total_price |-> Price(1),
                            items |-> << Line(1, 1) >>] >>,
             stock |-> [p \in Products |-> InitialStock],
             next_pk |-> 2,
             metrics |-> [p \in Products |-> SetMetrics(p)],
             n_products |-> 15,
             n_clients |-> 16]

\* nothing runs yet: no transaction is open, the objects and the locals are
\* as loaded from the durable database
InitLocals ==
    /\ tx = committed
    /\ needs_rollback = FALSE
    /\ pc = "idle"
    /\ clear_existing = FALSE
    /\ p_stock = committed.stock
    /\ current_date = 0
    /\ daily_left = 0
    /\ items_data = << >>
    /\ order_total = 0
    /\ total_orders = 0
    /\ total_revenue = 0
    /\ nfaults = 0
    /\ faults = {}
    /\ h_fault_day = -1
    /\ h_before = committed
    /\ h_created = << >>
    /\ h_planned = << 0, 0 >>
    /\ h_attempted = << 0, 0 >>
    /\ h_runs = << >>
    /\ p_metrics = committed.metrics
    /\ h_days = << >>
    /\ h_ensure = [p \in Products |-> NoCall(committed.metrics[p])]
    /\ fn_in = [fn |-> "none"]
    /\ fn_out = [status |-> "none"]

\* A generator over WindowDays + 1 days is called once, on an empty or on a
\* seeded database; to follow consecutive calls within the bounds, a
\* generator over a single day is called MaxCalls times.
Init ==
    /\ \/ /\ end_date = WindowDays
          /\ calls_left = 1
          /\ committed \in {EmptyDb, SeededDb}
       \/ /\ end_date = 0
          /\ calls_left = MaxCalls
          /\ committed = EmptyDb
    /\ InitLocals

CanFault == nfaults < MaxFaults

\* the call ends with working state `work`: the outer atomic block exits
EndCall(work, raised, kinds) ==
    LET durable == OuterAtomicExit(committed, work, raised, needs_rollback) IN
    /\ committed' = durable
    /\ tx' = durable
    /\ needs_rollback' = FALSE
    /\ pc' = IF raised THEN "raised" ELSE "returned"
    /\ h_runs' = Append(h_runs, [clear |-> clear_existing,
                                 raised |-> raised,
                                 clean |-> ~raised /\ kinds = {},
                                 before |-> Len(h_before.orders),
                                 after |-> Len(durable.orders)])

\* generate_sales_data(clear_existing): a caller starts a run
Call(clear) ==
    /\ pc \in {"idle", "returned", "raised"}
    /\ calls_left > 0
    /\ calls_left' = calls_left - 1
    /\ clear_existing' = clear
    /\ tx' = committed
    /\ needs_rollback' = FALSE
    /\ pc' = FirstStep(clear)
    /\ faults' = {}
    /\ h_fault_day' = -1
    /\ h_before' = committed
    /\ h_created' = << >>
    /\ h_planned' = << 0, 0 >>
    /\ h_attempted' = << 0, 0 >>
    /\ current_date' = 0
    /\ daily_left' = 0
    /\ items_data' = << >>
    /\ order_total' = 0
    /\ total_orders' = 0
    /\ total_revenue' = 0
    /\ h_days' = << >>
    /\ UNCHANGED << committed, end_date, p_stock, nfaults, h_runs, fnvars,
                    metricvars >>

\* Order.objects.all().delete() succeeds
ClearOk ==
    /\ pc = "clear"
    /\ tx' = [tx EXCEPT !.orders = << >>]
    /\ pc' = "prepare"
    /\ UNCHANGED << committed, needs_rollback, callvars, fnvars, metricvars, p_stock, loopvars,
                    nfaults, faults, h_fault_day, histvars, h_runs >>

\* Order.objects.all().delete() raises after deleting the first k rows:
\* nothing catches it, the call raises
ClearFail(k) ==
    /\ pc = "clear"
    /\ CanFault
    /\ k \in 0 .. Len(tx.orders)
    /\ nfaults' = nfaults + 1
    /\ faults' = faults \cup {"clear"}
    /\ EndCall([tx EXCEPT !.orders = SubSeq(tx.orders, k + 1, Len(tx.orders))],
               TRUE, faults \cup {"clear"})
    /\ UNCHANGED << callvars, fnvars, metricvars, p_stock, loopvars, h_fault_day, histvars >>

\* products = self._create_demo_products_if_needed(), customers = ...,
\* counters set to zero.  With 30 products or more every product loaded is
\* handed to _ensure_product_metrics.  With fewer, each row of
\* products_data is fetched or inserted (stock drawn, metrics None, no
\* image), handed to _ensure_product_metrics and, when it has no image,
\* given the placeholder and saved as a whole: that save makes the metrics
\* derived in memory durable even when the save of _ensure_product_metrics
\* raised.  A product.save() that failed in the database has marked the
\* transaction for rollback: the save of the image then raises and is
\* swallowed, and the next query of the bootstrap (a get_or_create, or the
\* query for the clients) raises TransactionManagementError, which nothing
\* catches; the rows after that one are not reached.
Prepare(outcomes, rows) ==
    /\ pc = "prepare"
    /\ outcomes \in AllEnsureOutcomes
    /\ rows \in AllRowOutcomes
    /\ nfaults + FaultCount(outcomes, NumProducts)
               + ImageFaultCount(rows, NumProducts) <= MaxFaults
    /\ LET few == tx.n_products < 30
           created == [p \in Products |-> few /\ p > tx.n_products]
           loaded == [p \in Products |->
                        IF created[p] THEN NewProduct ELSE tx.metrics[p]]
           ensureBroken == [p \in Products |->
                              /\ Updated(loaded[p], outcomes[p])
                              /\ outcomes[p].save = "db_error"]
           imageStep == [p \in Products |-> few /\ ~loaded[p].image]
           broken == [p \in Products |->
                        \/ ensureBroken[p]
                        \/ imageStep[p] /\ rows[p].image = "db_error"]
           reached == [p \in Products |->
                         \A q \in Products : q < p => ~broken[q]]
           calls == [p \in Products |->
                       IF reached[p]
                       THEN EnsureProductMetrics(loaded[p], p, outcomes[p])
                       ELSE NoCall(tx.metrics[p])]
           objects == [p \in Products |->
                         IF reached[p] /\ imageStep[p]
                         THEN [calls[p].after EXCEPT !.image = TRUE]
                         ELSE calls[p].after]
           kinds == UNION { EnsureFaults(outcomes[p]) \cup ImageFaults(rows[p]) :
                            p \in Products }
           work == [tx EXCEPT
                      !.metrics = [p \in Products |->
                                     IF ~reached[p] THEN tx.metrics[p]
                                     ELSE IF /\ imageStep[p]
                                             /\ ~ensureBroken[p]
                                             /\ rows[p].image = "saved"
                                          THEN objects[p]
                                     ELSE IF calls[p].save = "saved"
                                          THEN calls[p].after
                                     ELSE loaded[p]],
                      !.stock = [p \in Products |->
                                   IF reached[p] /\ created[p]
                                   THEN rows[p].stock ELSE tx.stock[p]],
                      !.n_products = ProductsAfter(@),
                      !.n_clients = ClientsAfter(@)] IN
       /\ \A p \in Products :
             /\ reached[p] => Effective(loaded[p], outcomes[p])
             /\ ~reached[p] => EnsureFaults(outcomes[p]) = {}
             /\ (rows[p].image # "saved") =>
                   (reached[p] /\ imageStep[p] /\ ~ensureBroken[p])
             /\ ~(reached[p] /\ created[p]) =>
                   \A s \in StockDraws : rows[p].stock <= s
       /\ p_metrics' = objects
       /\ h_ensure' = calls
       /\ nfaults' = nfaults + FaultCount(outcomes, NumProducts)
                             + ImageFaultCount(rows, NumProducts)
       /\ faults' = faults \cup kinds
       /\ IF \E p \in Products : broken[p]
          THEN /\ EndCall(work, TRUE, faults \cup kinds)
               /\ UNCHANGED << p_stock, current_date, total_orders,
                               total_revenue >>
          ELSE /\ tx' = work
               /\ p_stock' = work.stock
               /\ current_date' = 0
               /\ total_orders' = 0
               /\ total_revenue' = 0
               /\ pc' = "day"
               /\ UNCHANGED << committed, needs_rollback, h_runs >>
    /\ UNCHANGED << callvars, fnvars, daily_left, items_data, order_total,
                    h_fault_day, histvars >>

\* update_products_metrics(limit): every product the table holds (the
\* first `limit` ones when limit is not 0) is loaded and handed to
\* _ensure_product_metrics; on an empty table nothing is touched.
\* No transaction is open: each product.save() is durable on its own.
UpdateProductsMetrics(limit, outcomes) ==
    /\ pc \in {"idle", "returned", "raised"}
    /\ calls_left > 0
    /\ limit \in 0 .. NumProducts
    /\ outcomes \in AllEnsureOutcomes
    /\ nfaults + FaultCount(outcomes, NumProducts) <= MaxFaults
    /\ LET held == { p \in Products : p <= committed.n_products }
           checked == IF limit = 0 THEN held
                      ELSE { p \in held : p <= limit }
           calls == [p \in Products |->
                       IF p \in checked
                       THEN EnsureProductMetrics(committed.metrics[p], p,
                                                 outcomes[p])
                       ELSE NoCall(committed.metrics[p])]
           durable == [committed EXCEPT
                         !.metrics = [p \in Products |->
                                        IF calls[p].save = "saved"
                                        THEN calls[p].after
                                        ELSE committed.metrics[p]]] IN
       /\ \A p \in checked : Effective(committed.metrics[p], outcomes[p])
       /\ \A p \in Products \ checked : EnsureFaults(outcomes[p]) = {}
       /\ committed' = durable
       /\ tx' = durable
       /\ p_metrics' = [p \in Products |-> calls[p].after]
       /\ h_ensure' = calls
       /\ faults' = UNION { EnsureFaults(outcomes[p]) : p \in Products }
       /\ h_before' = committed
    /\ nfaults' = nfaults + FaultCount(outcomes, NumProducts)
    /\ calls_left' = calls_left - 1
    /\ pc' = "idle"
    /\ h_fault_day' = -1
    /\ h_created' = << >>
    /\ h_planned' = << 0, 0 >>
    /\ h_attempted' = << 0, 0 >>
    /\ h_days' = << >>
    /\ UNCHANGED << needs_rollback, clear_existing, end_date, p_stock,
                    loopvars, h_runs, fnvars >>

\* while current_date <= self.end_date: daily_sales = ...
DayStart(n) ==
    /\ pc = "day"
    /\ current_date <= end_date
    /\ n \in DailySalesCounts
    /\ daily_left' = n
    /\ h_planned' = << h_planned[1] + n, h_planned[2] >>
    /\ h_days' = Append(h_days, current_date)
    /\ pc' = "order"
    /\ UNCHANGED << committed, tx, needs_rollback, callvars, fnvars, metricvars, p_stock,
                    current_date, items_data, order_total, total_orders,
                    total_revenue, nfaults, faults, h_fault_day, h_before,
                    h_created, h_attempted, h_runs >>

\* the while loop ends: the summary is returned through the decorator
Return ==
    /\ pc = "day"
    /\ current_date > end_date
    /\ EndCall(tx, FALSE, faults)
    /\ UNCHANGED << callvars, fnvars, metricvars, p_stock, loopvars, nfaults, faults,
                    h_fault_day, histvars >>

\* the for loop of one day ends: current_date += timedelta(days=1)
NextDay ==
    /\ pc = "order"
    /\ daily_left = 0
    /\ current_date' = current_date + 1
    /\ pc' = "day"
    /\ UNCHANGED << committed, tx, needs_rollback, callvars, fnvars, metricvars, p_stock,
                    daily_left, items_data, order_total, total_orders,
                    total_revenue, nfaults, faults, h_fault_day, histvars,
                    h_runs >>

\* the row Order.objects.create writes: auto_now_add stamps it with now,
\* which is self.end_date
NewOrder(total) ==
    [pk |-> tx.next_pk, created_at |-> end_date, total_price |-> total,
     items |-> << >>]

Inserted(total) ==
    [tx EXCEPT !.orders = Append(@, NewOrder(total)), !.next_pk = @ + 1]

\* one iteration draws its basket, computes order_total and creates the
\* header inside a savepoint: the creation succeeds
CreateOrderOk(items) ==
    /\ pc = "order"
    /\ daily_left > 0
    /\ ~needs_rollback
    /\ items \in GenerateOrderItems
    /\ items_data' = items
    /\ order_total' = SumLines(items)
    /\ tx' = InnerAtomicExit(tx, Inserted(SumLines(items)), FALSE)
    /\ h_created' = Append(h_created,
                           [NewOrder(SumLines(items)) EXCEPT !.created_at = current_date])
    /\ h_planned' = << h_planned[1], h_planned[2] + Len(items) >>
    /\ h_attempted' = << h_attempted[1] + 1, h_attempted[2] >>
    /\ pc' = "override"
    /\ UNCHANGED << committed, needs_rollback, callvars, fnvars, metricvars, p_stock,
                    current_date, daily_left, total_orders, total_revenue,
                    nfaults, faults, h_fault_day, h_before, h_days, h_runs >>

\* the header creation raises (before or after its INSERT): `continue`.
\* In a broken transaction no savepoint is taken and every query raises
\* TransactionManagementError, a DatabaseError.
CreateOrderFail(items, wrote) ==
    /\ pc = "order"
    /\ daily_left > 0
    /\ items \in GenerateOrderItems
    /\ wrote \in BOOLEAN
    /\ IF needs_rollback
       THEN /\ ~wrote
            /\ UNCHANGED << tx, nfaults, faults, h_fault_day >>
       ELSE /\ CanFault
            /\ nfaults' = nfaults + 1
            /\ faults' = faults \cup {"header"}
            /\ h_fault_day' = current_date
            /\ tx' = InnerAtomicExit(tx,
                        IF wrote THEN Inserted(SumLines(items)) ELSE tx, TRUE)
    /\ items_data' = << >>
    /\ order_total' = 0
    /\ daily_left' = daily_left - 1
    /\ h_attempted' = << h_attempted[1] + 1, h_attempted[2] >>
    /\ pc' = "order"
    /\ UNCHANGED << committed, needs_rollback, callvars, fnvars, metricvars, p_stock,
                    current_date, total_orders, total_revenue, h_before, h_days,
                    h_created, h_planned, h_runs >>

SetCreatedAt(db, day) ==
    [db EXCEPT !.orders[Len(db.orders)].created_at = day]

\* Order.objects.filter(pk=order.pk).update(created_at=..., updated_at=...)
OverrideOk ==
    /\ pc = "override"
    /\ tx' = SetCreatedAt(tx, current_date)
    /\ pc' = "items"
    /\ UNCHANGED << committed, needs_rollback, callvars, fnvars, metricvars, p_stock, loopvars,
                    nfaults, faults, h_fault_day, histvars, h_runs >>

\* the update raises: nothing catches it, the call raises
OverrideFail ==
    /\ pc = "override"
    /\ CanFault
    /\ nfaults' = nfaults + 1
    /\ faults' = faults \cup {"override"}
    /\ h_fault_day' = current_date
    /\ EndCall(tx, TRUE, faults \cup {"override"})
    /\ UNCHANGED << callvars, fnvars, metricvars, p_stock, loopvars, histvars >>

AddItem(db, item) ==
    [db EXCEPT !.orders[Len(db.orders)].items = Append(@, item)]

\* outcomes of p.save() after a committed line: it saves, it raises before
\* its query reaches the database, or its query fails in the database,
\* which marks the outer transaction for rollback
StockOutcomes == {"saved", "raised", "db_error"}

\* OrderItem.objects.create(...) succeeds inside its savepoint, then the
\* stock of the product is reduced (best effort, every exception swallowed)
CreateItemOk(outcome) ==
    /\ pc = "items"
    /\ items_data # << >>
    /\ ~needs_rollback
    /\ outcome \in StockOutcomes
    /\ LET item == Head(items_data)
           p == item.product
           sells == p_stock[p] >= item.quantity
           after == StockAfterSale(p_stock[p], item.quantity)
           withItem == InnerAtomicExit(tx, AddItem(tx, item), FALSE) IN
       /\ (outcome # "saved") => (sells /\ CanFault)
       /\ p_stock' = [p_stock EXCEPT ![p] = after]
       /\ tx' = IF sells /\ outcome = "saved"
                THEN [withItem EXCEPT !.stock[p] = after,
                                      !.metrics[p] = p_metrics[p]]
                ELSE withItem
       /\ needs_rollback' = (outcome = "db_error")
       /\ nfaults' = IF outcome = "saved" THEN nfaults ELSE nfaults + 1
       /\ faults' = IF outcome = "saved" THEN faults
                    ELSE faults \cup {"stock_" \o outcome}
       /\ h_fault_day' = IF outcome = "saved" THEN h_fault_day ELSE current_date
       /\ h_created' = [h_created EXCEPT ![Len(h_created)].items = Append(@, item)]
    /\ items_data' = Tail(items_data)
    /\ h_attempted' = << h_attempted[1], h_attempted[2] + 1 >>
    /\ UNCHANGED << committed, pc, callvars, fnvars, metricvars,
                    current_date, daily_left,
                    order_total, total_orders, total_revenue, h_before, h_days,
                    h_planned, h_runs >>

\* OrderItem.objects.create(...) raises (before or after its INSERT): the
\* line is skipped
CreateItemFail(wrote) ==
    /\ pc = "items"
    /\ items_data # << >>
    /\ wrote \in BOOLEAN
    /\ IF needs_rollback
       THEN /\ ~wrote
            /\ UNCHANGED << tx, nfaults, faults, h_fault_day >>
       ELSE /\ CanFault
            /\ nfaults' = nfaults + 1
            /\ faults' = faults \cup {"item"}
            /\ h_fault_day' = current_date
            /\ tx' = InnerAtomicExit(tx,
                        IF wrote THEN AddItem(tx, Head(items_data)) ELSE tx, TRUE)
    /\ items_data' = AfterItemFailure(items_data)
    /\ h_attempted' = << h_attempted[1], h_attempted[2] + 1 >>
    /\ UNCHANGED << committed, needs_rollback, pc, callvars, fnvars, metricvars, p_stock,
                    current_date, daily_left, order_total, total_orders,
                    total_revenue, h_before, h_days, h_created, h_planned, h_runs >>

\* the basket is exhausted: total_orders += 1; total_revenue += order_total
OrderDone ==
    /\ pc = "items"
    /\ items_data = << >>
    /\ total_orders' = total_orders + 1
    /\ total_revenue' = total_revenue + order_total
    /\ order_total' = 0
    /\ daily_left' = daily_left - 1
    /\ pc' = "order"
    /\ UNCHANGED << committed, tx, needs_rollback, callvars, fnvars, metricvars, p_stock,
                    current_date, items_data, nfaults, faults, h_fault_day,
                    histvars, h_runs >>

Next ==
    \/ \E clear \in BOOLEAN : Call(clear)
    \/ ClearOk
    \/ \E k \in 0 .. Len(tx.orders) : ClearFail(k)
    \/ \E outcomes \in AllEnsureOutcomes, rows \in AllRowOutcomes :
          Prepare(outcomes, rows)
    \/ \E n \in DailySalesCounts : DayStart(n)
    \/ Return
    \/ NextDay
    \/ \E items \in GenerateOrderItems : CreateOrderOk(items)
    \/ \E items \in GenerateOrderItems, wrote \in BOOLEAN : CreateOrderFail(items, wrote)
    \/ OverrideOk
    \/ OverrideFail
    \/ \E outcome \in StockOutcomes : CreateItemOk(outcome)
    \/ \E wrote \in BOOLEAN : CreateItemFail(wrote)
    \/ OrderDone

Spec == Init /\ [][Next]_vars

\* ---- bootstrap, metrics and the loop without faults of persistence ---------
\* the metrics of product p in a table where `unset` names the fields that
\* are still None and, by "image", that the rows have no image
MetricsWithout(unset, p) ==
    [rating |-> IF "rating" \in unset THEN None ELSE SetMetrics(p).rating,
     energy |-> IF "energy" \in unset THEN None ELSE SetMetrics(p).energy,
     image |-> "image" \notin unset]

\* a database without orders: `unset` are the fields no product has yet,
\* n_products and n_clients the rows of the Product and client tables.  A
\* row of products_data the table does not hold yet has nothing in stock.
FreshDb(unset, n_products, n_clients) ==
    [orders |-> << >>,
     stock |-> [p \in Products |->
                  IF p <= n_products THEN InitialStock ELSE 0],
     next_pk |-> 1,
     metrics |-> [p \in Products |->
                    IF p <= n_products THEN MetricsWithout(unset, p)
                    ELSE NewProduct],
     n_products |-> n_products,
     n_clients |-> n_clients]

\* the outcomes in which no call of _ensure_product_metrics meets a fault
CleanEnsureOutcomes ==
    { f \in AllEnsureOutcomes : FaultCount(f, NumProducts) = 0 }

\* the outcomes in which every save of the placeholder image succeeds; the
\* stock of an inserted row is the low end of its range
CleanRowOutcomes ==
    { r \in AllRowOutcomes :
        /\ ImageFaultCount(r, NumProducts) = 0
        /\ \A p \in Products : \A s \in StockDraws : r[p].stock <= s }

\* before the first bootstrap, and a bootstrapped database of 30 products
CleanDbs ==
    { FreshDb({"rating", "energy"}, 0, 0),
      FreshDb({}, 30, 31) }

\* one call of a generator over WindowDays + 1 days
InitClean ==
    /\ end_date = WindowDays
    /\ calls_left = 1
    /\ committed \in CleanDbs
    /\ InitLocals

\* a run in which nothing faults
NextClean ==
    \/ \E clear \in BOOLEAN : Call(clear)
    \/ ClearOk
    \/ \E outcomes \in CleanEnsureOutcomes, rows \in CleanRowOutcomes :
          Prepare(outcomes, rows)
    \/ \E n \in DailySalesCounts : DayStart(n)
    \/ Return
    \/ NextDay
    \/ \E items \in GenerateOrderItems : CreateOrderOk(items)
    \/ OverrideOk
    \/ CreateItemOk("saved")
    \/ OrderDone

\* the program is single-threaded: a call that was started runs on
SpecClean == InitClean /\ [][NextClean]_vars /\ WF_vars(NextClean)

\* before the first bootstrap, catalogs of 30 or more products that
\* predate one of the metrics, and the rows of products_data without energy
\* estimate and without image
MetricsDbs ==
    { FreshDb({"rating", "energy"}, 0, 0),
      FreshDb({"rating"}, 31, 15),
      FreshDb({"energy"}, 30, 31),
      FreshDb({"energy", "image"}, 15, 16) }

\* a generator over a single day and MaxCalls calls to share between
\* generate_sales_data and update_products_metrics
InitMetrics ==
    /\ end_date = 0
    /\ calls_left = MaxCalls
    /\ committed \in MetricsDbs
    /\ InitLocals

\* generate_sales_data is called at most once, update_products_metrics
\* before or after it; the faults are those of _ensure_product_metrics
\* and of the save of the placeholder image, every persistence step of the
\* loop succeeds
NextMetrics ==
    \/ \E clear \in BOOLEAN : h_runs = << >> /\ Call(clear)
    \/ ClearOk
    \/ \E outcomes \in AllEnsureOutcomes, rows \in AllRowOutcomes :
          Prepare(outcomes, rows)
    \/ \E limit \in 0 .. NumProducts, outcomes \in AllEnsureOutcomes :
          UpdateProductsMetrics(limit, outcomes)
    \/ \E n \in DailySalesCounts : DayStart(n)
    \/ Return
    \/ NextDay
    \/ \E items \in GenerateOrderItems : CreateOrderOk(items)
    \/ OverrideOk
    \/ CreateItemOk("saved")
    \/ OrderDone

SpecMetrics == InitMetrics /\ [][NextMetrics]_vars

\* ---- what the claims speak about ----------------------------------------

\* the primary keys of a sequence of order rows
Pks(orders) == { orders[i].pk : i \in DOMAIN orders }

\* the rows of a sequence of order rows
Rows(orders) == { orders[i] : i \in DOMAIN orders }

\* the durable orders that did not exist when the running call started
NewOrders ==
    SelectSeq(committed.orders, LAMBDA o : o.pk \notin Pks(h_before.orders))

RECURSIVE QuantityOf(_, _)
\* the quantity of product p over a sequence of lines
QuantityOf(items, p) ==
    IF items = << >> THEN 0
    ELSE (IF Head(items).product = p THEN Head(items).quantity ELSE 0)
         + QuantityOf(Tail(items), p)

RECURSIVE SoldIn(_, _)
\* the quantity of product p over the lines of a sequence of order rows
SoldIn(orders, p) ==
    IF orders = << >> THEN 0
    ELSE QuantityOf(Head(orders).items, p) + SoldIn(Tail(orders), p)

\* C1: when a fault happens inside the loop on a day after the first, every
\* order (with its lines) created on an earlier day is durable once the
\* call has ended.
C1_LateFaultKeepsHistory ==
    (pc \in {"returned", "raised"} /\ h_fault_day > 0) =>
        \A i \in DOMAIN h_created :
            h_created[i].created_at < h_fault_day =>
                h_created[i] \in Rows(committed.orders)

\* C2: a call with clear_existing = FALSE never raises, whatever step of
\* the loop faults.
C2_LoopNeverRaises ==
    ~clear_existing => pc # "raised"

\* C3: a failing header creation changes nothing in the database, leaves
\* the counters alone, attempts no line and goes on with the next order of
\* the day; a run that returns has attempted every order it drew, and the
\* orders it made durable are exactly those whose own creation succeeded
\* (unless a stock update broke the transaction).
C3_HeaderFaultIsolated ==
    /\ [][ (pc = "order" /\ daily_left > 0 /\ pc' # "override") =>
              /\ tx' = tx
              /\ committed' = committed
              /\ total_orders' = total_orders
              /\ total_revenue' = total_revenue
              /\ h_attempted'[2] = h_attempted[2]
              /\ pc' = "order"
              /\ current_date' = current_date
              /\ daily_left' = daily_left - 1 ]_vars
    /\ [](pc = "returned" =>
              /\ h_attempted[1] = h_planned[1]
              /\ current_date = end_date + 1
              /\ ("stock_db_error" \notin faults =>
                      Pks(NewOrders) = Pks(h_created)))

C3_Witness ==
    /\ pc = "returned"
    /\ faults = {"header"}
    /\ end_date > 0
    /\ h_planned[1] > Len(h_created)
    /\ Len(h_created) >= 2
    /\ Pks(NewOrders) = Pks(h_created)

\* C4: a failing line creation skips that line only: the database is left
\* as it was and the next line of the basket is up; a run that returns has
\* attempted every line it drew for the orders it created, and every order
\* it made durable holds exactly the lines whose own creation succeeded
\* (unless a stock update broke the transaction).
C4_ItemFaultIsolated ==
    /\ [][ (pc = "items" /\ items_data # << >> /\ h_created' = h_created) =>
              /\ tx' = tx
              /\ committed' = committed
              /\ p_stock' = p_stock
              /\ pc' = "items"
              /\ items_data' = Tail(items_data)
              /\ daily_left' = daily_left ]_vars
    /\ [](pc = "returned" =>
              /\ h_attempted[2] = h_planned[2]
              /\ ("stock_db_error" \notin faults => NewOrders = h_created))

C4_Witness ==
    /\ pc = "returned"
    /\ faults = {"item"}
    /\ NewOrders = h_created
    /\ \E i \in DOMAIN h_created :
          /\ Len(h_created[i].items) = 1
          /\ h_created[i].total_price > SumLines(h_created[i].items)
    /\ \E i, j \in DOMAIN h_created :
          /\ i # j
          /\ h_created[i].created_at = h_created[j].created_at

\* C5: after a run every order it made durable has a total_price equal to
\* the sum of quantity x price over its durable lines.
C5_TotalIsSumOfItems ==
    pc = "returned" =>
        \A i \in DOMAIN NewOrders :
            NewOrders[i].total_price = SumLines(NewOrders[i].items)

\* C6: after a run (already one without any fault) the durable stock of
\* every product is max(0, stock before the run - quantity sold in the run).
C6_StockIsFlooredDifference ==
    (pc = "returned" /\ faults = {}) =>
        \A p \in Products :
            committed.stock[p] =
                Max(0, h_before.stock[p] - SoldIn(NewOrders, p))

\* C7: the stock of every product, durable, in the open transaction and in
\* memory, is a non-negative integer in every state.
C7_StockNonNegative ==
    \A p \in Products :
        /\ committed.stock[p] \in Nat
        /\ tx.stock[p] \in Nat
        /\ p_stock[p] \in Nat

C7_Witness ==
    /\ pc = "returned"
    /\ "stock_db_error" \notin faults
    /\ \E p \in Products :
          /\ SoldIn(NewOrders, p) > h_before.stock[p]
          /\ committed.stock[p] < h_before.stock[p]

\* C8: when the clear step fails the call raises and the database is what
\* it was before the call: no order deleted, none added.
C8_FailedClearKeepsOrders ==
    (pc = "raised" /\ "clear" \in faults) =>
        /\ committed = h_before
        /\ h_created = << >>

C8_Witness ==
    /\ pc = "raised"
    /\ "clear" \in faults
    /\ clear_existing
    /\ h_before.orders # << >>
    /\ committed.orders = h_before.orders

\* C9: after a run with clear_existing = TRUE has returned, no order that
\* existed before is durable and the number of durable orders is the
\* total_orders it returned.
C9_ClearedRunCount ==
    (pc = "returned" /\ clear_existing) =>
        /\ Pks(committed.orders) \cap Pks(h_before.orders) = {}
        /\ Len(committed.orders) = total_orders

\* C10: a run with clear_existing = FALSE that returns keeps every earlier
\* order and, having created the header of at least one order, leaves
\* strictly more durable orders than there were before it.
C10_EachRunAddsOrders ==
    (pc = "returned" /\ ~clear_existing) =>
        /\ SubSeq(committed.orders, 1, Len(h_before.orders)) = h_before.orders
        /\ h_created # << >> =>
               Len(committed.orders) > Len(h_before.orders)

RECURSIVE SumTotals(_)
\* the sum of total_price over a sequence of order rows
SumTotals(orders) ==
    IF orders = << >> THEN 0
    ELSE Head(orders).total_price + SumTotals(Tail(orders))

\* C13: the total_orders and total_revenue a run returns are the number of
\* orders it made durable and the sum of their total_price.
C13_SummaryMatchesPersisted ==
    pc = "returned" =>
        /\ total_orders = Len(NewOrders)
        /\ total_revenue = SumTotals(NewOrders)

\* C16: in a run whose only faults are failing stock updates, every line
\* that was created stays durable and the rest of the run is processed as
\* usual: every order drawn is created and durable with all its lines.
C16_StockFaultIsolated ==
    (pc = "returned" /\ faults # {}
        /\ faults \subseteq {"stock_raised", "stock_db_error"}) =>
        /\ NewOrders = h_created
        /\ Len(h_created) = h_planned[1]
        /\ h_attempted = h_planned
        /\ \A i \in DOMAIN h_created :
              SumLines(h_created[i].items) = h_created[i].total_price

\* ---- the helpers of the generator, applied on their own ------------------
\* (self.end_date - self.start_date).days
TotalDays == 730
\* grid on which days_from_start is sampled in 0 .. TotalDays
TrendStep == 365
\* grid on which random.uniform(0.8, 1.2) is sampled, in hundredths
NoiseStep == 10

\* random.randint(5, 15)
BaseSales == 5 .. 15

Months == 1 .. 12

\* date.weekday(): 0 is Monday
Weekdays == 0 .. 6

DaysFromStart == { d \in 0 .. TotalDays : d % TrendStep = 0 }

\* random.uniform(0.8, 1.2) in hundredths
RandomFactors == { n \in 80 .. 120 : (n - 80) % NoiseStep = 0 }

\* _get_seasonal_multiplier, in tenths
GetSeasonalMultiplier(month) ==
    IF month = 12 THEN 15
    ELSE IF month \in {1, 2} THEN 7
    ELSE IF month \in {7, 8} THEN 13
    ELSE IF month \in {6, 11} THEN 12
    ELSE 10

\* _get_trend_multiplier: 1.0 + (days_from_start / total_days) * 0.5 as the
\* fraction << numerator, denominator >>
GetTrendMultiplier(days_from_start) ==
    << 2 * TotalDays + days_from_start, 2 * TotalDays >>

\* _get_weekday_multiplier, in tenths
GetWeekdayMultiplier(weekday) ==
    IF weekday \in {5, 6} THEN 13
    ELSE IF weekday = 4 THEN 11
    ELSE 10

\* base_sales * seasonal * trend * weekday * random_factor as the exact
\* fraction << numerator, denominator >>
SalesProduct(a) ==
    LET trend == GetTrendMultiplier(a.days_from_start) IN
    << a.base_sales * GetSeasonalMultiplier(a.month) * trend[1]
          * GetWeekdayMultiplier(a.weekday) * a.random_factor,
       10 * trend[2] * 10 * 100 >>

\* int(x) of a non-negative fraction: the fractional part is dropped
IntOf(x) == x[1] \div x[2]

\* _generate_daily_sales_count once base_sales and random_factor are drawn
GenerateDailySalesCount(a) == Max(1, IntOf(SalesProduct(a)))

\* round(x) of a non-negative fraction: to the nearest integer, ties to even
RoundOf(x) ==
    LET q == x[1] \div x[2]
        twice == 2 * (x[1] % x[2]) IN
    IF twice < x[2] THEN q
    ELSE IF twice > x[2] THEN q + 1
    ELSE IF q % 2 = 0 THEN q ELSE q + 1

DailyArgs ==
    [fn : {"daily"}, base_sales : BaseSales, month : Months,
     weekday : Weekdays, days_from_start : DaysFromStart,
     random_factor : RandomFactors]

\* the generator itself is not running
Parked ==
    /\ committed = EmptyDb
    /\ tx = EmptyDb
    /\ needs_rollback = FALSE
    /\ pc = "idle"
    /\ calls_left = 0
    /\ clear_existing = FALSE
    /\ end_date = 0
    /\ p_stock = EmptyDb.stock
    /\ current_date = 0
    /\ daily_left = 0
    /\ items_data = << >>
    /\ order_total = 0
    /\ total_orders = 0
    /\ total_revenue = 0
    /\ nfaults = 0
    /\ faults = {}
    /\ h_fault_day = -1
    /\ h_before = EmptyDb
    /\ h_created = << >>
    /\ h_planned = << 0, 0 >>
    /\ h_attempted = << 0, 0 >>
    /\ h_runs = << >>
    /\ p_metrics = EmptyDb.metrics
    /\ h_days = << >>
    /\ h_ensure = [p \in Products |-> NoCall(EmptyDb.metrics[p])]

\* outcomes of an application
Pending == [status |-> "pending"]

Returned(v) == [status |-> "returned", value |-> v]

Raised(e) == [status |-> "raised", error |-> e]

\* self._generate_daily_sales_count(current_date)
ApplyDailySalesCount ==
    /\ fn_in.fn = "daily"
    /\ fn_out = Pending
    /\ fn_out' = Returned(GenerateDailySalesCount(fn_in))
    /\ UNCHANGED << genvars, fn_in >>

\* C18: the daily count is the product of base, multipliers and noise,
\* rounded to the nearest integer and floored at 1.
C18_DailyCountIsRounded ==
    (fn_in.fn = "daily" /\ fn_out # Pending) =>
        fn_out = Returned(Max(1, RoundOf(SalesProduct(fn_in))))

\* size of the catalog handed to _generate_order_items on its own
SamplerCatalog == 2

\* values of p._popularity in hundredths: 0, the default 0.5 and the largest
\* weight of products_data
PopularityLevels == {0, 50, 95}

RECURSIVE SumWeights(_)
SumWeights(weights) ==
    IF weights = << >> THEN 0 ELSE Head(weights) + SumWeights(Tail(weights))

\* random.choices(population, weights=weights, k=k): the possible outcomes.
\* A total weight of 0 raises ValueError (interpreters before 3.9 return the
\* last element k times instead); an element of weight 0 is never drawn.
RandomChoices(population, weights, k) ==
    IF SumWeights(weights) = 0
    THEN {Raised("ValueError"),
          Returned([i \in 1 .. k |-> population[Len(population)]])}
    ELSE {Returned(sel) :
            sel \in [1 .. k -> {population[j] :
                                  j \in {i \in DOMAIN weights : weights[i] > 0}}]}

\* _generate_order_items(products) where weights[p] is p._popularity: the
\* possible outcomes
GenerateOrderItemsOf(weights) ==
    LET products == [p \in DOMAIN weights |-> p] IN
    UNION { UNION { IF selected.status = "raised" THEN {selected}
                    ELSE {Returned([i \in 1 .. num_items |->
                                      Line(selected.value[i], quantity[i])]) :
                            quantity \in [1 .. num_items -> 1 .. 3]} :
                    selected \in RandomChoices(products, weights, num_items)} :
            num_items \in 1 .. 4 }

ItemsArgs ==
    [fn : {"items"}, weights : [1 .. SamplerCatalog -> PopularityLevels]]

\* self._generate_order_items(products)
ApplyOrderItems ==
    /\ fn_in.fn = "items"
    /\ fn_out = Pending
    /\ \E outcome \in GenerateOrderItemsOf(fn_in.weights) : fn_out' = outcome
    /\ UNCHANGED << genvars, fn_in >>

\* C17: on a catalog whose popularity weights are all 0 the sampler does not
\* fail: it returns a basket of 1 to 4 lines, each of quantity 1, 2 or 3.
C17_ZeroWeightsStillSample ==
    (/\ fn_in.fn = "items"
     /\ fn_out # Pending
     /\ \A p \in DOMAIN fn_in.weights : fn_in.weights[p] = 0) =>
        /\ fn_out.status = "returned"
        /\ Len(fn_out.value) \in 1 .. 4
        /\ \A i \in DOMAIN fn_out.value : fn_out.value[i].quantity \in 1 .. 3

\* grid on which the time of day of timezone.now() is sampled, in minutes
ClockStep == 360
\* grid on which random.randint(0, 59) is sampled
MinuteStep == 59

\* minutes after midnight at which the generator was constructed
ClockTimes == { t \in 0 .. 24 * 60 - 1 : t % ClockStep = 0 }

\* random.randint(8, 20)
OrderHours == 8 .. 20

OrderMinutes == { m \in 0 .. 59 : m % MinuteStep = 0 }

\* Instants are minutes after the midnight that begins the calendar day of
\* self.start_date.
\* self.start_date = timezone.now() - timedelta(days=730)
StartDate(now) == now

\* self.end_date = timezone.now()
EndDate(now) == TotalDays * 24 * 60 + now

\* current_date after `day` passes of current_date += timedelta(days=1)
CurrentDate(now, day) == StartDate(now) + day * 24 * 60

\* order_date = current_date + timedelta(hours=hours, minutes=minutes)
OrderDate(a) == CurrentDate(a.now, a.day) + a.hours * 60 + a.minutes

\* the calendar day of an instant, counted from the day of self.start_date
DayOf(t) == t \div (24 * 60)

HourOf(t) == (t % (24 * 60)) \div 60

MinuteOf(t) == t % 60

OrderDateArgs ==
    [fn : {"order_date"}, now : ClockTimes, day : DaysFromStart,
     hours : OrderHours, minutes : OrderMinutes]

\* the instant Order.objects.filter(pk=order.pk).update(...) writes
ApplyOrderDate ==
    /\ fn_in.fn = "order_date"
    /\ fn_out = Pending
    /\ fn_out' = Returned(OrderDate(fn_in))
    /\ UNCHANGED << genvars, fn_in >>

InitFunctions ==
    /\ Parked
    /\ \/ fn_in \in DailyArgs
       \/ fn_in \in ItemsArgs
       \/ fn_in \in OrderDateArgs
    /\ fn_out = Pending

NextFunctions ==
    \/ ApplyDailySalesCount
    \/ ApplyOrderItems
    \/ ApplyOrderDate

\* each helper applied once to arguments drawn from its domain
SpecFunctions == InitFunctions /\ [][NextFunctions]_vars

\* C15: the instant written as created_at and updated_at of an order made
\* while the loop is on day d lies in calendar day d, at an hour from 8 to
\* 20 and a minute from 0 to 59, and not after the end of the window.
C15_TimestampWithinDay ==
    (fn_in.fn = "order_date" /\ fn_out # Pending) =>
        /\ DayOf(fn_out.value) = fn_in.day
        /\ HourOf(fn_out.value) \in 8 .. 20
        /\ MinuteOf(fn_out.value) \in 0 .. 59
        /\ fn_out.value <= EndDate(fn_in.now)

\* the positions at which a call of generate_demo_data is running
Running == {"clear", "prepare", "day", "order", "override", "items"}

\* C11: _ensure_product_metrics writes a field only when it is None: a call
\* leaves a rating or an energy estimate that is set as it is, a call on a
\* product with both set changes nothing and does not save, and a durable
\* rating or energy estimate never changes once it is set.
C11_MetricsWriteOnce ==
    /\ [](\A p \in Products :
            LET c == h_ensure[p] IN
            /\ c.before.rating # None => c.after.rating = c.before.rating
            /\ c.before.energy # None => c.after.energy = c.before.energy
            /\ (c.before.rating # None /\ c.before.energy # None) =>
                  (c.after = c.before /\ c.save = "none"))
    /\ [][\A p \in Products :
            /\ committed.metrics[p].rating # None =>
                  committed'.metrics[p].rating = committed.metrics[p].rating
            /\ committed.metrics[p].energy # None =>
                  committed'.metrics[p].energy = committed.metrics[p].energy]_vars

\* a second call finds both fields set by an earlier call and does nothing
C11_Witness ==
    /\ calls_left = MaxCalls - 2
    /\ \E p \in Products :
          /\ h_ensure[p].called
          /\ h_ensure[p].before.rating # None
          /\ h_ensure[p].before.energy # None
          /\ h_ensure[p].save = "none"
          /\ committed.metrics[p] = h_ensure[p].before

\* the kinds of the faults _ensure_product_metrics can meet
MetricsFaultKinds == {"rating", "energy", "metrics_raised", "metrics_db_error"}

\* C12: a fault inside _ensure_product_metrics stays inside it: the field
\* whose derivation failed is left None and the other one is derived, and
\* the generation run that called it and met no other fault goes on,
\* returns and has its orders durable.
C12_MetricsFaultSwallowed ==
    /\ (pc \in {"day", "order", "override", "items", "returned", "raised"}
        \/ (pc = "idle" /\ calls_left < MaxCalls)) =>
          \A p \in Products :
            h_ensure[p].called =>
              /\ "rating" \notin faults => h_ensure[p].after.rating # None
              /\ "energy" \notin faults => h_ensure[p].after.energy # None
    /\ (pc \in {"returned", "raised"} /\ faults # {}
           /\ faults \subseteq MetricsFaultKinds) =>
          /\ pc = "returned"
          /\ h_created # << >>
          /\ Len(h_created) = h_planned[1]
          /\ NewOrders = h_created

\* C14: a run without faults enters every day of the window once, in
\* ascending order, creates at least one order on each of them, ends, and
\* returns at least one order per day and pools of at least 15 products and
\* 15 customers.
C14_EveryDayOnce ==
    /\ [](pc # "raised")
    /\ [](pc = "returned" =>
            /\ h_days = [i \in 1 .. end_date + 1 |-> i - 1]
            /\ \A d \in 0 .. end_date :
                  \E i \in DOMAIN h_created : h_created[i].created_at = d
            /\ NewOrders = h_created
            /\ total_orders = Len(h_created)
            /\ total_orders >= end_date + 1
            /\ ProductsReturned(h_before.n_products) >= 15
            /\ CustomersReturned(h_before.n_clients) >= 15)
    /\ (pc \in Running) ~> (pc = "returned")

\* a run on a database that had no product and no client returned, with a
\* day of more than one order
C14_Witness ==
    /\ pc = "returned"
    /\ h_before.n_products = 0
    /\ h_before.n_clients = 0
    /\ Len(h_days) = WindowDays + 1
    /\ total_orders > Len(h_days)

====
